---- MODULE Spec2Model ----
(***************************************************************************)
(* State-machine model of RepetierOutputDevice (src/RepetierOutputDevice.py):*)
(* the status poller, the response reconciler (_onRequestFinished), the     *)
(* connection-state tracker and the print-job controller.                   *)
(*                                                                          *)
(* Conventions.                                                             *)
(*  - Python strings that the code inspects character by character (the     *)
(*    camera stream URL, the address) are sequences of one-character        *)
(*    strings; enumerations (states, texts of messages) are TLA+ strings.   *)
(*  - An optional object (None or an object) is a sequence of length 0 or 1.*)
(*  - A handler that raises keeps the assignments it made before the raise; *)
(*    the exception that leaves the handler is recorded in last.raised.     *)
(*  - last is a history variable: the operation of the last step, the reply *)
(*    it handled, the network requests it issued, in order, the transfers   *)
(*    it aborted and whether it showed the "Saved to Repetier" message.     *)
(*  - The upload held in self._post_reply is <<[url, state]>>: the URL it   *)
(*    was sent to and whether the transfer is in flight or finished.        *)
(*  - The host application always has a global container stack (the guards  *)
(*    of lines 294-296, 334-336 and 462-464 never return early): the plugin *)
(*    connects a device only for the active machine.                        *)
(***************************************************************************)
EXTENDS Integers, Sequences, FiniteSets, TLC

VARIABLES
    protocol, address, port,          \* instance endpoint, fixed at construction
    connection_state,                 \* self._connection_state
    connection_state_before_timeout,  \* self._connection_state_before_timeout
    update_timer,                     \* self._update_timer is active
    manager,                          \* self._manager exists
    inflight,                         \* requests issued and not yet answered, per target
    printers,                         \* self._printers
    number_of_extruders,              \* self._number_of_extruders
    number_of_extruders_set,          \* self._number_of_extruders_set
    accepts_commands,                 \* self.acceptsCommands
    connection_text,                  \* text given to setConnectionText
    camera_url, camera_shares_proxy, camera_rotation, camera_mirror,
    sd_supported,                     \* self._sd_supported
    auto_print, forced_queue,         \* self._auto_print, self._forced_queue
    error_message, progress_message,  \* self._error_message, self._progress_message
    post_reply,                       \* self._post_reply
    queued_gcode_commands,            \* self._queued_gcode_commands
    queued_gcode_timer,               \* self._queued_gcode_timer is active
    pref_auto_print, pref_flip_y,     \* metadata entries of the container stack
    last                              \* history: the last operation

connVars  == <<connection_state, connection_state_before_timeout, update_timer, manager>>
endpointVars == <<protocol, address, port>>
modelVars == <<printers, number_of_extruders, number_of_extruders_set,
               accepts_commands, connection_text>>
cameraVars == <<camera_url, camera_shares_proxy, camera_rotation, camera_mirror>>
printVars == <<auto_print, forced_queue, error_message, progress_message, post_reply>>
queueVars == <<queued_gcode_commands, queued_gcode_timer>>
prefVars  == <<pref_auto_print, pref_flip_y>>

vars == <<protocol, address, port, connection_state, connection_state_before_timeout,
          update_timer, manager, inflight, printers, number_of_extruders,
          number_of_extruders_set, accepts_commands, connection_text, camera_url,
          camera_shares_proxy, camera_rotation, camera_mirror, sd_supported,
          auto_print, forced_queue, error_message, progress_message, post_reply,
          queued_gcode_commands, queued_gcode_timer, pref_auto_print, pref_flip_y,
          last>>

(***************************************************************************)
(* Bounds of the model.                                                     *)
(***************************************************************************)
\* requests of one target that may be outstanding together
MaxInflight == 2
\* commands that may wait in the pending command queue
MaxQueue == 3
\* largest extruder count a state snapshot reports
MaxExtruders == 2

(***************************************************************************)
(* Character strings.                                                       *)
(***************************************************************************)
S_http  == <<"h", "t", "t", "p">>
S_https == <<"h", "t", "t", "p", "s">>
S_loopback == <<"1", "2", "7", ".", "0", ".", "0", ".", "1">>
S_addr1 == <<"1", "0", ".", "0", ".", "0", ".", "5">>
S_addr2 == <<"p", "i">>

\* str.lower() on one character (the letters the model's strings use)
LowerChar(c) ==
    CASE c = "H" -> "h"
      [] c = "T" -> "t"
      [] c = "P" -> "p"
      [] OTHER -> c

Lower(s) == [i \in 1..Len(s) |-> LowerChar(s[i])]

\* s[:n]
Prefix(s, n) == SubSeq(s, 1, IF n < Len(s) THEN n ELSE Len(s))

\* str.replace(old, new): every non-overlapping occurrence, left to right
RECURSIVE Replace(_, _, _)
Replace(s, old, new) ==
    IF Len(s) < Len(old) THEN s
    ELSE IF SubSeq(s, 1, Len(old)) = old
         THEN new \o Replace(SubSeq(s, Len(old) + 1, Len(s)), old, new)
         ELSE <<s[1]>> \o Replace(Tail(s), old, new)

Digit(d) == CASE d = 0 -> "0" [] d = 1 -> "1" [] d = 2 -> "2" [] d = 3 -> "3"
              [] d = 4 -> "4" [] d = 5 -> "5" [] d = 6 -> "6" [] d = 7 -> "7"
              [] d = 8 -> "8" [] d = 9 -> "9"

\* "%d" % n for n >= 0
RECURSIVE FormatInt(_)
FormatInt(n) == IF n < 10 THEN <<Digit(n)>> ELSE FormatInt(n \div 10) \o <<Digit(n % 10)>>

(***************************************************************************)
(* ConnectionState (cura.PrinterOutputDevice): an IntEnum, so that a        *)
(* member's truth value is that of its number.                              *)
(***************************************************************************)
None == "None"
ConnectionStateValue(s) ==
    CASE s = "closed" -> 0
      [] s = "connecting" -> 1
      [] s = "connected" -> 2
      [] s = "busy" -> 3
      [] s = "error" -> 4

\* bool(x) for x None or a ConnectionState
Truthy(x) == x # None /\ ConnectionStateValue(x) # 0

(***************************************************************************)
(* The printer / extruder / job model (package cura.PrinterOutput).         *)
(***************************************************************************)
\* ExtruderOutputModel(): both temperatures 0
NewExtruder == [target |-> 0, actual |-> 0]

\* PrintJobOutputModel(output_controller): no name, no state, times 0
NewPrintJob == [state |-> "", name |-> "", time_elapsed |-> 0, time_total |-> 0]

\* PrinterOutputModel(number_of_extruders = n): state "unknown", bed -1/0, no job
NewPrinterModel(n) ==
    [state |-> "unknown",
     extruders |-> [i \in 1..n |-> NewExtruder],
     bed_actual |-> -1, bed_target |-> 0,
     job |-> <<>>,
     camera |-> <<>>]

\* _createPrinterList: the printer list becomes one new printer of the current
\* extruder count, with the camera when a camera URL is known
CreatePrinterList(n, url) ==
    <<[NewPrinterModel(n) EXCEPT !.camera = IF url # <<>> THEN <<url>> ELSE <<>>]>>


\* printer.updateState / activePrintJob.updateState("offline") when a job exists
\* (lines 562-564, 571-573, 577-579)
MarkOffline(p) ==
    [p EXCEPT !.state = "offline",
              !.job = IF @ = <<>> THEN @ ELSE <<[@[1] EXCEPT !.state = "offline"]>>]

(***************************************************************************)
(* Requests and replies.                                                    *)
(***************************************************************************)
Targets == {"stateList", "listPrinter", "getPrinterConfig", "send",
            "continueJob", "stopJob", "upload"}

\* a routing that looks at the auto-print flag only
CreateEmptyRequestUrl_ignores_forced(target, forced, auto) ==
    IF target = "upload"
    THEN IF ~auto THEN "save" ELSE "job"
    ELSE "api"

\* the URL an empty request is built for: the job URL or the model/save URL
\* for an upload, the API URL for everything else
CreateEmptyRequestUrl(target, forced, auto) ==
    IF target = "upload"
    THEN IF forced \/ ~auto THEN "save" ELSE "job"
    ELSE "api"

Request(op, target, url, data) == [op |-> op, target |-> target, url |-> url, data |-> data]

\* self.get(target, ...) and self._manager.get(self._createEmptyRequest(target))
Get(target) == Request("GET", target, CreateEmptyRequestUrl(target, forced_queue, auto_print), <<>>)

RECURSIVE CountTarget(_, _)
CountTarget(reqs, t) ==
    IF reqs = <<>> THEN 0
    ELSE (IF Head(reqs).target = t THEN 1 ELSE 0) + CountTarget(Tail(reqs), t)

\* the outstanding requests after reqs were issued; beyond MaxInflight per target
\* the model stops following further replies of that target
Issue(fl, reqs) ==
    [t \in Targets |->
        IF fl[t] + CountTarget(reqs, t) > MaxInflight THEN MaxInflight
        ELSE fl[t] + CountTarget(reqs, t)]

NoBody == [kind |-> "none"]
NoReply == [op |-> "", target |-> "", error |-> "", status |-> 0, body |-> NoBody]

\* the history record of a step; a step aborts no transfer and shows no
\* confirmation unless its action says so
Did(op, reply, requests, raised, created, restored) ==
    [op |-> op, reply |-> reply, requests |-> requests, raised |-> raised,
     created |-> created, restored |-> restored, aborted |-> 0,
     confirmation |-> FALSE]

(***************************************************************************)
(* Construction (__init__, lines 38-139) and the base classes' fields.      *)
(***************************************************************************)
InitDevice ==
    /\ connection_state = "closed"
    /\ connection_state_before_timeout = None
    /\ update_timer = FALSE
    /\ manager = FALSE
    /\ inflight = [t \in Targets |-> 0]
    /\ printers = <<>>
    /\ number_of_extruders = 1
    /\ number_of_extruders_set = FALSE
    /\ accepts_commands = FALSE
    /\ connection_text = "Connected"
    /\ camera_url = <<>>
    /\ camera_shares_proxy = FALSE
    /\ camera_rotation = 0
    /\ camera_mirror = FALSE
    /\ sd_supported = FALSE
    /\ auto_print = TRUE
    /\ forced_queue = FALSE
    /\ error_message = <<>>
    /\ progress_message = <<>>
    /\ post_reply = <<>>
    /\ queued_gcode_commands = <<>>
    /\ queued_gcode_timer = FALSE
    /\ last = Did("init", NoReply, <<>>, "", 0, None)

Init ==
    /\ InitDevice
    /\ protocol = S_http
    /\ address = S_addr1
    /\ port = 8080
    /\ pref_auto_print = TRUE
    /\ pref_flip_y = FALSE

(***************************************************************************)
(* The status poller and the connection lifecycle.                          *)
(***************************************************************************)
\* _update: the two status requests of one poll
UpdateRequests == <<Get("stateList"), Get("listPrinter")>>

\* the poll timer fires: _update
update ==
    /\ update_timer
    /\ inflight' = Issue(inflight, UpdateRequests)
    /\ last' = Did("update", NoReply, UpdateRequests, "", 0, None)
    /\ UNCHANGED <<endpointVars, connVars, modelVars, cameraVars, sd_supported,
                   printVars, queueVars, prefVars>>

\* the requests connect() issues, in order: _update, the configuration request
\* registered with the handler, and the two direct gets of lines 267-268
ConnectRequests ==
    UpdateRequests \o <<Get("getPrinterConfig"), Get("getPrinterConfig"), Get("stateList")>>

connect ==
    /\ manager' = TRUE
    /\ connection_state' = "connecting"
    /\ update_timer' = TRUE
    /\ accepts_commands' = FALSE
    /\ connection_text' = "Connecting"
    /\ inflight' = Issue(inflight, ConnectRequests)
    /\ last' = Did("connect", NoReply, ConnectRequests, "", 0, None)
    /\ UNCHANGED <<endpointVars, connection_state_before_timeout, printers,
                   number_of_extruders, number_of_extruders_set, cameraVars,
                   sd_supported, printVars, queueVars, prefVars>>

\* Message.hide() on an optional message
Hide(m) == IF m = <<>> THEN m ELSE <<[m[1] EXCEPT !.visible = FALSE]>>

\* close() that leaves the poll timer running
close_keeps_polling ==
    /\ connection_state' = "closed"
    /\ progress_message' = Hide(progress_message)
    /\ error_message' = Hide(error_message)
    /\ UNCHANGED <<endpointVars, connection_state_before_timeout, update_timer, manager,
                   inflight, modelVars, cameraVars, sd_supported, auto_print,
                   forced_queue, post_reply, queueVars, prefVars>>

\* close(): closed, both messages hidden, poll timer stopped
close ==
    /\ connection_state' = "closed"
    /\ progress_message' = Hide(progress_message)
    /\ error_message' = Hide(error_message)
    /\ update_timer' = FALSE
    /\ UNCHANGED <<endpointVars, connection_state_before_timeout, manager, inflight,
                   modelVars, cameraVars, sd_supported, auto_print, forced_queue,
                   post_reply, queueVars, prefVars>>

\* disconnect(): close()
disconnect ==
    /\ close
    /\ last' = Did("disconnect", NoReply, <<>>, "", 0, None)


(***************************************************************************)
(* The response reconciler: the device-state snapshot (stateList).          *)
(* A body is                                                                *)
(*   [valid, hasId, numExtruder, extruder, heatedBed, heatedBeds]           *)
(* valid: the text is JSON; hasId: the object has the instance's key; an    *)
(* optional key is <<>> (absent) or <<value>>. A temperature record is      *)
(* [tempRead, tempSet], each <<>> (key missing) or <<number or JsonNull>>.  *)
(* The reconciler works on the record                                       *)
(*   d = [cs, printers, n, nset, acc, text, url, shares, rotation, mirror,  *)
(*        sd]                                                               *)
(* of the fields it may change: connection state, printer list, extruder   *)
(* count and its set flag, acceptsCommands, connection text, the camera     *)
(* descriptor and the sd-card flag.                                         *)
(***************************************************************************)
\* JSON null in a temperature field
JsonNull == -1000

\* x if x is not None else -1
OrMinusOne(x) == IF x = JsonNull THEN -1 ELSE x

\* result of a block that may raise: the fields so far, whether it raised, and
\* how many times the numExtruder handling rebuilt the printer list
Res(d, exc, created) == [d |-> d, exc |-> exc, created |-> created]

\* for index in range(0, n): the hotend temperatures of printer p (lines 522-532);
\* i is index + 1
RECURSIVE ExtruderLoop(_, _, _, _)
ExtruderLoop(p, i, n, ext) ==
    IF i > n THEN [p |-> p, exc |-> FALSE]
    ELSE IF i > Len(p.extruders) THEN [p |-> p, exc |-> TRUE]
    ELSE IF ext # <<>>
         THEN IF i > Len(ext[1]) \/ ext[1][i].tempSet = <<>>
              THEN [p |-> p, exc |-> TRUE]
              ELSE LET p1 == [p EXCEPT !.extruders[i].target = ext[1][i].tempSet[1]]
                   IN IF ext[1][i].tempRead = <<>>
                      THEN [p |-> p1, exc |-> TRUE]
                      ELSE ExtruderLoop(
                               [p1 EXCEPT !.extruders[i].actual = ext[1][i].tempRead[1]],
                               i + 1, n, ext)
         ELSE ExtruderLoop([p EXCEPT !.extruders[i] = NewExtruder], i + 1, n, ext)

\* whether a reported count makes the handler rebuild the printer list (line 513)
RebuildsOn(count, known) == count > 1

\* the numExtruder handling (lines 508-532)
NumExtruderPart(d, body, url) ==
    LET count == body.numExtruder[1]
        rebuild == RebuildsOn(count, d.n)
        d1 == [d EXCEPT !.n = count,
                        !.printers = IF rebuild THEN CreatePrinterList(count, url) ELSE @,
                        !.nset = IF count > 0 THEN TRUE ELSE @]
        loop == ExtruderLoop(d1.printers[1], 1, count, body.extruder)
    IN Res([d1 EXCEPT !.printers = <<loop.p>>], loop.exc, IF rebuild THEN 1 ELSE 0)

\* the bed temperatures from one temperature record (lines 535-539, 544-548)
BedUpdate(p, item) ==
    IF item.tempRead = <<>> THEN [p |-> p, exc |-> TRUE]
    ELSE LET p1 == [p EXCEPT !.bed_actual = OrMinusOne(item.tempRead[1])]
         IN IF item.tempSet = <<>> THEN [p |-> p1, exc |-> TRUE]
            ELSE [p |-> [p1 EXCEPT !.bed_target = OrMinusOne(item.tempSet[1])],
                  exc |-> FALSE]

\* the bed temperature handling (lines 534-554); printer_state is a local that
\* only the numExtruder handling assigns
BedPart(d, body, created) ==
    LET p == d.printers[1]
        r == IF body.heatedBed # <<>> THEN BedUpdate(p, body.heatedBed[1])
             ELSE IF body.heatedBeds # <<>>
                  THEN IF body.heatedBeds[1] = <<>> THEN [p |-> p, exc |-> TRUE]
                       ELSE BedUpdate(p, body.heatedBeds[1][1])
                  ELSE LET p1 == [p EXCEPT !.bed_actual = -1, !.bed_target = 0]
                       IN IF body.numExtruder # <<>>
                          THEN [p |-> [p1 EXCEPT !.state = "idle"], exc |-> FALSE]
                          ELSE [p |-> p1, exc |-> TRUE]
    IN Res([d EXCEPT !.printers = <<r.p>>], r.exc, created)

\* the try block of lines 507-554
TryStateList(d, body, url) ==
    IF ~body.valid \/ ~body.hasId THEN Res(d, TRUE, 0)
    ELSE LET a == IF body.numExtruder # <<>> THEN NumExtruderPart(d, body, url)
                  ELSE Res(d, FALSE, 0)
         IN IF a.exc THEN a ELSE BedPart(a.d, body, a.created)

\* result of a branch of the handler: the fields, the exception that leaves the
\* handler ("" for none), the rebuilds
Out(d, raised, created) == [d |-> d, raised |-> raised, created |-> created]

\* stateList answered 200 (lines 494-559)
StateList200(d, body, url) ==
    LET d1 == [d EXCEPT !.acc = TRUE,
                        !.text = IF ~d.acc THEN "Connected" ELSE @,
                        !.cs = IF @ = "connecting" THEN "connected" ELSE @]
        t == TryStateList(d1, body, url)
        p == t.d.printers[1]
    IN IF ~t.exc THEN Out(t.d, "", t.created)
       ELSE IF p.job = <<>> THEN Out(t.d, "AttributeError", t.created)
       ELSE Out([t.d EXCEPT !.printers = <<[p EXCEPT !.job[1].state = "offline"]>>,
                            !.text = "invalid"], "", t.created)

\* a stateList branch whose 409 case leaves a connecting device connecting
StateListBranch_409_no_promotion(d, status, body, url) ==
    LET d0 == IF d.printers = <<>>
              THEN [d EXCEPT !.printers = CreatePrinterList(d.n, url)] ELSE d
        off == [d0 EXCEPT !.printers = <<MarkOffline(d0.printers[1])>>]
    IN CASE status = 200 -> StateList200(d0, body, url)
         [] status = 401 -> Out([off EXCEPT !.text = "denied"], "", 0)
         [] status = 409 -> Out([off EXCEPT !.text = "notOperational"], "", 0)
         [] OTHER -> Out(off, "", 0)

\* the stateList branch (lines 488-580)
StateListBranch(d, status, body, url) ==
    LET d0 == IF d.printers = <<>>
              THEN [d EXCEPT !.printers = CreatePrinterList(d.n, url)] ELSE d
        off == [d0 EXCEPT !.printers = <<MarkOffline(d0.printers[1])>>]
    IN CASE status = 200 -> StateList200(d0, body, url)
         [] status = 401 -> Out([off EXCEPT !.text = "denied"], "", 0)
         [] status = 409 ->
                Out([off EXCEPT !.cs = IF @ = "connecting" THEN "connected" ELSE @,
                                !.text = "notOperational"], "", 0)
         [] OTHER -> Out(off, "", 0)


(***************************************************************************)
(* The response reconciler: the job list (listPrinter).                     *)
(* A body is [valid, items]; items is the JSON list; an element is          *)
(*   [job, paused, done, start, printTime, printedTimeComp]                 *)
(* each <<>> (key absent) or <<value>>.                                     *)
(***************************************************************************)
\* the time accounting of lines 634-651 on job j for element e; the result is
\* the job and the exception that leaves the handler
TimeAccounting(j, e) ==
    IF e.start = <<>> THEN [job |-> j, raised |-> ""]
    ELSE IF e.start[1] = 0
            THEN IF e.job = <<>>
                 THEN [job |-> [j EXCEPT !.time_elapsed = 0, !.time_total = 0],
                       raised |-> "KeyError"]
                 ELSE [job |-> [j EXCEPT !.time_elapsed = 0, !.time_total = 0,
                                         !.name = e.job[1]], raised |-> ""]
            ELSE IF e.printTime = <<>> THEN [job |-> j, raised |-> "KeyError"]
            ELSE LET j1 == IF e.printTime[1] # 0
                           THEN [j EXCEPT !.time_total = e.printTime[1]] ELSE j
                 IN IF e.printedTimeComp = <<>> THEN [job |-> j1, raised |-> "KeyError"]
                    ELSE IF e.printedTimeComp[1] # 0
                         THEN LET j2 == [j1 EXCEPT !.time_elapsed = e.printedTimeComp[1]]
                              IN IF e.job = <<>> THEN [job |-> j2, raised |-> "KeyError"]
                                 ELSE [job |-> [j2 EXCEPT !.name = e.job[1]], raised |-> ""]
                    ELSE IF e.done = <<>> THEN [job |-> j1, raised |-> "UnboundLocalError"]
                    ELSE LET j2 == [j1 EXCEPT !.time_total =
                                        IF e.done[1] > 0
                                        THEN (e.printTime[1] * e.done[1]) \div 100
                                        ELSE 0]
                         IN IF e.job = <<>> THEN [job |-> j2, raised |-> "KeyError"]
                            ELSE [job |-> [j2 EXCEPT !.name = e.job[1]], raised |-> ""]

\* whether a truthy "paused" overrides the job state (lines 618-620)
PausedOverrides(e) == e.paused # <<>> /\ e.paused[1]

\* listPrinter answered 200 (lines 586-651)
ListPrinter200(d, body) ==
    LET p0 == [d.printers[1] EXCEPT !.state = "idle",
                                    !.job = IF @ = <<>> THEN <<NewPrintJob>> ELSE @]
        d0 == [d EXCEPT !.printers = <<p0>>]
    IN IF ~body.valid THEN Out(d0, "KeyError", 0)
       ELSE IF body.items = <<>> THEN Out(d0, "IndexError", 0)
       ELSE LET e == body.items[1]
                none == e.job # <<>> /\ e.job[1] = "none"
                j0 == IF e.job = <<>> THEN p0.job[1]
                      ELSE IF none THEN NewPrintJob
                      ELSE [p0.job[1] EXCEPT !.name = e.job[1]]
                st == IF PausedOverrides(e) THEN "paused"
                      ELSE IF e.job # <<>> /\ ~none THEN "printing"
                      ELSE "ready"
                \* a job replaced by a fresh one is the printer's active job; a job
                \* kept is the same object
                t == TimeAccounting([j0 EXCEPT !.state = st], e)
            IN Out([d0 EXCEPT !.printers = <<[p0 EXCEPT !.job = <<t.job>>]>>],
                   t.raised, 0)

\* the listPrinter branch (lines 582-659)
ListPrinterBranch(d, status, body, url) ==
    LET d0 == IF d.printers = <<>>
              THEN [d EXCEPT !.printers = CreatePrinterList(d.n, url)] ELSE d
        p == d0.printers[1]
    IN IF status = 200 THEN ListPrinter200(d0, body)
       ELSE IF p.job = <<>> THEN Out(d0, "AttributeError", 0)
       ELSE Out([d0 EXCEPT !.printers = <<[p EXCEPT !.job[1].state = "offline"]>>,
                           !.text = "badResponse"], "", 0)


(***************************************************************************)
(* The response reconciler: the server configuration (getPrinterConfig).    *)
(* A body is [valid, sdcard, webcam, webcams]: sdcard is general.sdcard,    *)
(* webcam is webcam.dynamicUrl, each <<>> or <<value>>; webcams is <<>> or  *)
(* <<list>>, an element of the list being <<>> (no dynamicUrl) or <<url>>.  *)
(***************************************************************************)
\* stream_url[:4].lower() == "http"
StartsWithHttp(stream_url) == Lower(Prefix(stream_url, 4)) = S_http

\* a resolution that tests "/" before "//"
ResolveWebcam_slash_first(raw, proto, addr, prt) ==
    LET stream_url == Replace(raw, S_loopback, addr)
    IN IF stream_url = <<>> THEN [url |-> <<>>, shares |-> FALSE]
       ELSE IF StartsWithHttp(stream_url) THEN [url |-> stream_url, shares |-> FALSE]
       ELSE IF Prefix(stream_url, 1) = <<"/">>
            THEN [url |-> proto \o <<":", "/", "/">> \o addr \o <<":">>
                          \o FormatInt(prt) \o stream_url,
                  shares |-> TRUE]
       ELSE IF Prefix(stream_url, 1) = <<":">>
            THEN [url |-> proto \o <<":", "/", "/">> \o addr \o stream_url,
                  shares |-> FALSE]
       ELSE [url |-> <<>>, shares |-> FALSE]

\* a resolution that leaves the port out of a URL on the same port
ResolveWebcam_no_port(raw, proto, addr, prt) ==
    LET stream_url == Replace(raw, S_loopback, addr)
    IN IF stream_url = <<>> THEN [url |-> <<>>, shares |-> FALSE]
       ELSE IF StartsWithHttp(stream_url) THEN [url |-> stream_url, shares |-> FALSE]
       ELSE IF Prefix(stream_url, 2) = <<"/", "/">>
            THEN [url |-> proto \o <<":">> \o stream_url, shares |-> FALSE]
       ELSE IF Prefix(stream_url, 1) = <<":">>
            THEN [url |-> proto \o <<":", "/", "/">> \o addr \o stream_url,
                  shares |-> FALSE]
       ELSE IF Prefix(stream_url, 1) = <<"/">>
            THEN [url |-> proto \o <<":", "/", "/">> \o addr \o stream_url,
                  shares |-> TRUE]
       ELSE [url |-> <<>>, shares |-> FALSE]

\* the legacy block's resolution of a raw dynamicUrl (lines 675-689)
ResolveWebcam(raw, proto, addr, prt) ==
    LET stream_url == Replace(raw, S_loopback, addr)
    IN IF stream_url = <<>> THEN [url |-> <<>>, shares |-> FALSE]
       ELSE IF StartsWithHttp(stream_url) THEN [url |-> stream_url, shares |-> FALSE]
       ELSE IF Prefix(stream_url, 2) = <<"/", "/">>
            THEN [url |-> proto \o <<":">> \o stream_url, shares |-> FALSE]
       ELSE IF Prefix(stream_url, 1) = <<":">>
            THEN [url |-> proto \o <<":", "/", "/">> \o addr \o stream_url,
                  shares |-> FALSE]
       ELSE IF Prefix(stream_url, 1) = <<"/">>
            THEN [url |-> proto \o <<":", "/", "/">> \o addr \o <<":">>
                          \o FormatInt(prt) \o stream_url,
                  shares |-> TRUE]
       ELSE [url |-> <<>>, shares |-> FALSE]

\* the multi-webcam block's resolution of a raw dynamicUrl (lines 703-717)
ResolveWebcams(raw, proto, addr, prt) ==
    LET stream_url == Replace(raw, S_loopback, addr)
    IN IF stream_url = <<>> THEN [url |-> <<>>, shares |-> FALSE]
       ELSE IF StartsWithHttp(stream_url) THEN [url |-> stream_url, shares |-> FALSE]
       ELSE IF Prefix(stream_url, 2) = <<"/", "/">>
            THEN [url |-> proto \o <<":">> \o stream_url, shares |-> FALSE]
       ELSE IF Prefix(stream_url, 1) = <<":">>
            THEN [url |-> proto \o <<":", "/", "/">> \o addr \o stream_url,
                  shares |-> FALSE]
       ELSE IF Prefix(stream_url, 1) = <<"/">>
            THEN [url |-> proto \o <<":", "/", "/">> \o addr \o <<":">>
                          \o FormatInt(prt) \o stream_url,
                  shares |-> TRUE]
       ELSE [url |-> <<>>, shares |-> FALSE]

\* what both blocks do with the resolved camera (lines 690-695, 718-723)
ApplyCamera(d, c, flip) ==
    [d EXCEPT !.url = c.url,
              !.shares = c.shares,
              !.printers = IF c.url # <<>> /\ d.printers # <<>>
                           THEN <<[d.printers[1] EXCEPT !.camera = <<c.url>>]>>
                           ELSE @,
              !.rotation = IF flip THEN 180 ELSE @,
              !.mirror = FALSE]

\* the getPrinterConfig branch (lines 660-724)
ConfigBranch(d, status, body, proto, addr, prt, flip) ==
    IF status # 200 \/ ~body.valid THEN Out(d, "", 0)
    ELSE LET d1 == IF body.sdcard # <<>> THEN [d EXCEPT !.sd = body.sdcard[1]] ELSE d
             d2 == IF body.webcam # <<>>
                   THEN ApplyCamera(d1, ResolveWebcam(body.webcam[1], proto, addr, prt), flip)
                   ELSE d1
             d3 == IF body.webcams # <<>> /\ body.webcams[1] # <<>>
                      /\ body.webcams[1][1] # <<>>
                   THEN ApplyCamera(d2, ResolveWebcams(body.webcams[1][1][1],
                                                       proto, addr, prt), flip)
                   ELSE d2
         IN Out(d3, "", 0)

(***************************************************************************)
(* _onRequestFinished (lines 461-755).                                      *)
(* A reply is [op, target, error, status, body]: error is the transport     *)
(* error (NoError, TimeoutError, OtherError), status the HTTP status, 0     *)
(* when the reply carries none.                                             *)
(***************************************************************************)
\* the POST branch (lines 725-751) on the progress message pm. The URL of a
\* reply is that of its request: an upload goes to the job or the model/save
\* URL with ?a=upload&name=..., which holds neither the API prefix nor
\* listModels, and the device issues no listModels request; the reply of a
\* command (send) is only logged. The listModels block hides the progress
\* message and then reads the name Application, which the module never binds.
PostBranch(r, pm) ==
    IF r.target = "listModels"
    THEN IF pm = <<>>
         THEN [progress |-> pm, raised |-> "AttributeError", confirmation |-> FALSE]
         ELSE [progress |-> Hide(pm), raised |-> "NameError", confirmation |-> FALSE]
    ELSE [progress |-> pm, raised |-> "", confirmation |-> FALSE]

\* the branch a GET reply with an HTTP status is dispatched to (lines 485-724);
\* a reply of another operation or target changes none of these fields
Dispatch(d, r, proto, addr, prt, flip) ==
    IF r.op = "GET" /\ r.target = "stateList"
    THEN StateListBranch(d, r.status, r.body, d.url)
    ELSE IF r.op = "GET" /\ r.target = "listPrinter"
    THEN ListPrinterBranch(d, r.status, r.body, d.url)
    ELSE IF r.op = "GET" /\ r.target = "getPrinterConfig"
    THEN ConfigBranch(d, r.status, r.body, proto, addr, prt, flip)
    ELSE Out(d, "", 0)

\* whether a reply makes the handler restore the remembered state (line 471)
RestoresOn(before, error) == Truthy(before) /\ error = "NoError"

\* whether the upload held in _post_reply is still in flight
PostReplyInFlight == post_reply # <<>> /\ post_reply[1].state = "inflight"

\* the reply r can arrive: a request of its target is outstanding; the reply of
\* an upload is that of the transfer held in _post_reply (current) or that of
\* an earlier transfer which a later upload replaced there
Outstanding(r) ==
    /\ inflight[r.target] > 0
    /\ r.target = "upload" =>
           IF r.body.current THEN PostReplyInFlight
           ELSE inflight["upload"] > (IF PostReplyInFlight THEN 1 ELSE 0)

\* _post_reply once the reply r has arrived: the object stays in the field, its
\* transfer is finished
PostReplyAfter(r) ==
    IF r.target = "upload" /\ r.body.current
    THEN <<[post_reply[1] EXCEPT !.state = "finished"]>>
    ELSE post_reply

onRequestFinished(r) ==
    /\ Outstanding(r)
    /\ inflight' = [inflight EXCEPT ![r.target] = @ - 1]
    /\ post_reply' = PostReplyAfter(r)
    /\ UNCHANGED <<endpointVars, update_timer, manager, auto_print, forced_queue,
                   error_message, queueVars, prefVars>>
    /\ IF r.error = "TimeoutError"
       THEN /\ connection_state_before_timeout' = connection_state
            /\ connection_state' = "error"
            /\ UNCHANGED <<modelVars, cameraVars, sd_supported, progress_message>>
            /\ last' = Did("onRequestFinished", r, <<>>, "", 0, None)
       ELSE LET restore == RestoresOn(connection_state_before_timeout, r.error)
                d == [cs |-> IF restore THEN connection_state_before_timeout
                             ELSE connection_state,
                      printers |-> printers, n |-> number_of_extruders,
                      nset |-> number_of_extruders_set, acc |-> accepts_commands,
                      text |-> connection_text, url |-> camera_url,
                      shares |-> camera_shares_proxy, rotation |-> camera_rotation,
                      mirror |-> camera_mirror, sd |-> sd_supported]
                o == IF r.status = 0 THEN Out(d, "", 0)
                     ELSE Dispatch(d, r, protocol, address, port, pref_flip_y)
                post == IF r.status # 0 /\ r.op = "POST"
                        THEN PostBranch(r, progress_message)
                        ELSE [progress |-> progress_message, raised |-> "",
                              confirmation |-> FALSE]
            IN /\ connection_state_before_timeout' =
                      IF restore THEN None ELSE connection_state_before_timeout
               /\ connection_state' = o.d.cs
               /\ printers' = o.d.printers
               /\ number_of_extruders' = o.d.n
               /\ number_of_extruders_set' = o.d.nset
               /\ accepts_commands' = o.d.acc
               /\ connection_text' = o.d.text
               /\ camera_url' = o.d.url
               /\ camera_shares_proxy' = o.d.shares
               /\ camera_rotation' = o.d.rotation
               /\ camera_mirror' = o.d.mirror
               /\ sd_supported' = o.d.sd
               /\ progress_message' = post.progress
               /\ last' = [Did("onRequestFinished", r, <<>>,
                               IF r.op = "POST" THEN post.raised ELSE o.raised,
                               o.created,
                               IF restore THEN connection_state_before_timeout ELSE None)
                           EXCEPT !.confirmation = post.confirmation]


(***************************************************************************)
(* The print-job controller.                                                *)
(* A message is [text, visible, progress, action].                          *)
(***************************************************************************)
\* Message(...), addAction, show()
Shown(text, action) == <<[text |-> text, visible |-> TRUE, progress |-> 0, action |-> action]>>

\* startPrint that takes an offline printer for one that can print
StartPrintError_offline_prints(st, auto) ==
    IF st \in {"idle", "", "offline"} THEN <<>>
    ELSE IF ~auto THEN <<>>
    ELSE Shown("busy", "Queue")

\* the message startPrint ends with instead of uploading, <<>> when it goes on to
\* upload (lines 309-323): st is the active printer's state, auto the preference
StartPrintError(st, auto) ==
    IF st \in {"idle", ""} THEN <<>>
    ELSE IF ~auto THEN <<>>
    ELSE IF st = "offline" THEN Shown("offline", "Queue")
    ELSE Shown("busy", "Queue")

\* _startPrint (lines 333-409): the progress message, then the upload through
\* postFormWithParts, which makes the network manager when there is none.
\* Line 343 indexes the printer list only on the path that comes from startPrint
\* with a printer present.
StartPrint_(op, forced, auto) ==
    LET upload == Request("POST", "upload", CreateEmptyRequestUrl("upload", forced, auto), <<>>)
    IN /\ progress_message' = Shown("sending", "Cancel")
       /\ post_reply' = <<[url |-> upload.url, state |-> "inflight"]>>
       /\ manager' = TRUE
       /\ inflight' = Issue(inflight, <<upload>>)
       /\ last' = Did(op, NoReply, <<upload>>, "", 0, None)

\* startPrint (lines 293-325)
startPrint ==
    /\ auto_print' = pref_auto_print
    /\ forced_queue' = FALSE
    /\ UNCHANGED <<endpointVars, connection_state, connection_state_before_timeout,
                   update_timer, modelVars, cameraVars, sd_supported, queueVars, prefVars>>
    /\ IF printers = <<>>
       THEN \* self.activePrinter is None: AttributeError at line 309
            /\ error_message' = <<>>
            /\ progress_message' = <<>>
            /\ last' = Did("startPrint", NoReply, <<>>, "AttributeError", 0, None)
            /\ UNCHANGED <<post_reply, manager, inflight>>
       ELSE LET msg == StartPrintError(printers[1].state, pref_auto_print)
            IN IF msg # <<>>
               THEN /\ error_message' = msg
                    /\ progress_message' = <<>>
                    /\ last' = Did("startPrint", NoReply, <<>>, "", 0, None)
                    /\ UNCHANGED <<post_reply, manager, inflight>>
               ELSE /\ error_message' = <<>>
                    /\ StartPrint_("startPrint", FALSE, pref_auto_print)

\* _queuePrint (lines 327-331): the Queue action of a visible error message
queuePrint ==
    /\ error_message # <<>>
    /\ error_message[1].visible
    /\ error_message[1].action = "Queue"
    /\ error_message' = Hide(error_message)
    /\ forced_queue' = TRUE
    /\ StartPrint_("queuePrint", TRUE, auto_print)
    /\ UNCHANGED <<endpointVars, connection_state, connection_state_before_timeout,
                   update_timer, modelVars, cameraVars, sd_supported, auto_print,
                   queueVars, prefVars>>

\* what the finished signal of an aborted transfer carries
CancelledReply == [op |-> "POST", target |-> "upload", error |-> "OperationCanceledError",
                   status |-> 0, body |-> [kind |-> "upload", valid |-> TRUE, current |-> TRUE]]

\* _cancelSendGcode that leaves the aborted reply in _post_reply
cancelSendGcode_keeps_reply ==
    /\ post_reply' = IF post_reply = <<>> THEN <<>>
                     ELSE <<[post_reply[1] EXCEPT !.state = "finished"]>>
    /\ progress_message' = Hide(progress_message)
    /\ inflight' = IF PostReplyInFlight THEN [inflight EXCEPT !["upload"] = @ - 1]
                   ELSE inflight
    /\ last' = [Did("cancelSendGcode",
                    IF PostReplyInFlight THEN CancelledReply ELSE NoReply,
                    <<>>, "", 0, None)
                EXCEPT !.aborted = IF post_reply # <<>> THEN 1 ELSE 0]
    /\ UNCHANGED <<endpointVars, connVars, modelVars, cameraVars, sd_supported,
                   auto_print, forced_queue, error_message, queueVars, prefVars>>

\* _cancelSendGcode (lines 411-422), the Cancel action of the progress message:
\* the reply held in _post_reply is aborted and dropped, the progress message
\* hidden. abort() of a transfer in flight ends it: its finished signal carries
\* a cancelled-operation error and no HTTP status, on which the handler returns
\* at line 483 without a change (the remembered state is restored only on a
\* reply without error); abort() of a finished transfer does nothing.
cancelSendGcode ==
    /\ post_reply' = <<>>
    /\ progress_message' = Hide(progress_message)
    /\ inflight' = IF PostReplyInFlight THEN [inflight EXCEPT !["upload"] = @ - 1]
                   ELSE inflight
    /\ last' = [Did("cancelSendGcode",
                    IF PostReplyInFlight THEN CancelledReply ELSE NoReply,
                    <<>>, "", 0, None)
                EXCEPT !.aborted = IF post_reply # <<>> THEN 1 ELSE 0]
    /\ UNCHANGED <<endpointVars, connVars, modelVars, cameraVars, sd_supported,
                   auto_print, forced_queue, error_message, queueVars, prefVars>>

\* the progress message after _onUploadProgress(bytes_sent, bytes_total)
\* (lines 758-773), and the exception that leaves the callback: every branch
\* calls a method of self._progress_message, which raises when the field is
\* None; at 100 percent the message is hidden and replaced by the "Storing
\* data" message
UploadProgress(pm, bytes_sent, bytes_total) ==
    IF pm = <<>> THEN [progress |-> pm, raised |-> "AttributeError"]
    ELSE IF bytes_total > 0
         THEN LET progress == (bytes_sent * 100) \div bytes_total
              IN IF progress < 100
                 THEN [progress |-> IF progress > pm[1].progress
                                    THEN <<[pm[1] EXCEPT !.progress = progress]>>
                                    ELSE pm,
                       raised |-> ""]
                 ELSE [progress |-> Shown("storing", ""), raised |-> ""]
         ELSE [progress |-> <<[pm[1] EXCEPT !.progress = 0]>>, raised |-> ""]

\* the byte counts a progress signal carries: nothing known yet, half, all
ProgressSignals == {<<0, 0>>, <<1, 2>>, <<2, 2>>}

\* _onUploadProgress, on the uploadProgress signal of an upload in flight
onUploadProgress ==
    /\ inflight["upload"] > 0
    /\ \E b \in ProgressSignals :
          LET u == UploadProgress(progress_message, b[1], b[2])
          IN /\ progress_message' = u.progress
             /\ last' = Did("onUploadProgress", NoReply, <<>>, u.raised, 0, None)
    /\ UNCHANGED <<endpointVars, connVars, inflight, modelVars, cameraVars,
                   sd_supported, auto_print, forced_queue, error_message, post_reply,
                   queueVars, prefVars>>

(***************************************************************************)
(* Job commands: pause, resume, cancel.                                     *)
(***************************************************************************)
\* the request _sendCommandToApi posts (lines 445-457): data is the commands
SendCommandToApi(end_point, commands) == Request("POST", end_point, "api", commands)

\* _sendJobCommand that continues the job on "pause" and pauses it on "start"
SendJobCommand_swapped(command) ==
    CASE command = "pause" -> <<Get("continueJob")>>
      [] command = "start" -> <<SendCommandToApi("send", <<"@pause">>)>>
      [] command = "cancel" -> <<Get("stopJob")>>

\* the request _sendJobCommand issues (lines 435-442)
SendJobCommand(command) ==
    CASE command = "pause" -> <<SendCommandToApi("send", <<"@pause">>)>>
      [] command = "start" -> <<Get("continueJob")>>
      [] command = "cancel" -> <<Get("stopJob")>>

\* a step that issues the request of a job command; without a network manager
\* (before the first connect()) self._manager is None and the call raises
JobCommandStep(op, command) ==
    IF manager
    THEN /\ inflight' = Issue(inflight, SendJobCommand(command))
         /\ last' = Did(op, NoReply, SendJobCommand(command), "", 0, None)
    ELSE /\ inflight' = inflight
         /\ last' = Did(op, NoReply, <<>>, "AttributeError", 0, None)

\* a step that ends before any request: by an exception or by an early return
NoCommandStep(op, raised) ==
    /\ inflight' = inflight
    /\ last' = Did(op, NoReply, <<>>, raised, 0, None)

\* pausePrint (lines 275-279)
pausePrint ==
    /\ IF printers = <<>> THEN NoCommandStep("pausePrint", "IndexError")
       ELSE IF printers[1].job = <<>> THEN NoCommandStep("pausePrint", "")
       ELSE JobCommandStep("pausePrint", "pause")
    /\ UNCHANGED <<endpointVars, connVars, modelVars, cameraVars, sd_supported,
                   printVars, queueVars, prefVars>>

\* resumePrint (lines 281-288)
resumePrint ==
    /\ IF printers = <<>> THEN NoCommandStep("resumePrint", "IndexError")
       ELSE IF printers[1].job = <<>> THEN NoCommandStep("resumePrint", "")
       ELSE IF printers[1].job[1].state = "paused"
            THEN JobCommandStep("resumePrint", "start")
            ELSE JobCommandStep("resumePrint", "pause")
    /\ UNCHANGED <<endpointVars, connVars, modelVars, cameraVars, sd_supported,
                   printVars, queueVars, prefVars>>

\* cancelPrint (lines 290-291)
cancelPrint ==
    /\ JobCommandStep("cancelPrint", "cancel")
    /\ UNCHANGED <<endpointVars, connVars, modelVars, cameraVars, sd_supported,
                   printVars, queueVars, prefVars>>

(***************************************************************************)
(* Command dispatch.                                                        *)
(***************************************************************************)
Commands == {"G28", "M105"}

\* sendCommand (lines 424-426)
sendCommand(command) ==
    /\ Len(queued_gcode_commands) < MaxQueue
    /\ queued_gcode_commands' = Append(queued_gcode_commands, command)
    /\ queued_gcode_timer' = TRUE
    /\ last' = Did("sendCommand", NoReply, <<>>, "", 0, None)
    /\ UNCHANGED <<endpointVars, connVars, inflight, modelVars, cameraVars,
                   sd_supported, printVars, prefVars>>

\* what the flush of a non-empty queue does (line 431): the argument of
\* _sendCommandToApi is a str concatenated with the list of commands, which
\* raises TypeError before any request is made and before the queue is cleared
FlushNonEmpty(queue) == [requests |-> <<>>, queue |-> queue, raised |-> "TypeError"]

\* _sendQueuedGcode (lines 429-433), on the single-shot zero-delay timer
sendQueuedGcode ==
    /\ queued_gcode_timer
    /\ queued_gcode_timer' = FALSE
    /\ LET f == IF queued_gcode_commands # <<>> THEN FlushNonEmpty(queued_gcode_commands)
                ELSE [requests |-> <<>>, queue |-> <<>>, raised |-> ""]
       IN /\ queued_gcode_commands' = f.queue
          /\ inflight' = Issue(inflight, f.requests)
          /\ last' = Did("sendQueuedGcode", NoReply, f.requests, f.raised, 0, None)
    /\ UNCHANGED <<endpointVars, connVars, modelVars, cameraVars, sd_supported,
                   printVars, prefVars>>

\* the host application changes the repetier_auto_print entry of the stack
setAutoPrint ==
    /\ pref_auto_print' = ~pref_auto_print
    /\ last' = Did("setAutoPrint", NoReply, <<>>, "", 0, None)
    /\ UNCHANGED <<endpointVars, connVars, inflight, modelVars, cameraVars,
                   sd_supported, printVars, queueVars, pref_flip_y>>

\* the host application changes the repetier_webcamflip_y entry of the stack
setFlipY ==
    /\ pref_flip_y' = ~pref_flip_y
    /\ last' = Did("setFlipY", NoReply, <<>>, "", 0, None)
    /\ UNCHANGED <<endpointVars, connVars, inflight, modelVars, cameraVars,
                   sd_supported, printVars, queueVars, pref_auto_print>>

(***************************************************************************)
(* The replies the server and the transport may give.                       *)
(***************************************************************************)
Reply(op, target, error, status, body) ==
    [op |-> op, target |-> target, error |-> error, status |-> status, body |-> body]

Temp(read, set) == [tempRead |-> <<read>>, tempSet |-> <<set>>]

StateBody(valid, hasId, numExtruder, extruder, heatedBed, heatedBeds) ==
    [kind |-> "state", valid |-> valid, hasId |-> hasId, numExtruder |-> numExtruder,
     extruder |-> extruder, heatedBed |-> heatedBed, heatedBeds |-> heatedBeds]

\* a body that is not JSON
MalformedState == StateBody(FALSE, FALSE, <<>>, <<>>, <<>>, <<>>)

\* a complete snapshot of a printer with n extruders and a heated bed
GoodState(n) ==
    StateBody(TRUE, TRUE, <<n>>, <<[i \in 1..n |-> Temp(205, 210)]>>, <<Temp(55, 60)>>, <<>>)

Elem(job, paused, done, start, printTime, printedTimeComp) ==
    [job |-> job, paused |-> paused, done |-> done, start |-> start,
     printTime |-> printTime, printedTimeComp |-> printedTimeComp]

ListBody(valid, items) == [kind |-> "list", valid |-> valid, items |-> items]

MalformedList == ListBody(FALSE, <<>>)
IdleList == ListBody(TRUE, <<Elem(<<"none">>, <<FALSE>>, <<>>, <<>>, <<>>, <<>>)>>)
PrintingList ==
    ListBody(TRUE, <<Elem(<<"benchy">>, <<FALSE>>, <<50>>, <<1>>, <<200>>, <<100>>)>>)

ConfigBody(valid, sdcard, webcam, webcams) ==
    [kind |-> "config", valid |-> valid, sdcard |-> sdcard, webcam |-> webcam,
     webcams |-> webcams]

MalformedConfig == ConfigBody(FALSE, <<>>, <<>>, <<>>)

\* the replies to a GET of target: the transport errors of transport, without
\* HTTP status; 200 with no error and a body drawn from bodies; the HTTP errors
\* of statuses
GetReplies(target, transport, bodies, statuses) ==
    {Reply("GET", target, e, 0, NoBody) : e \in transport}
    \cup {Reply("GET", target, "NoError", 200, b) : b \in bodies}
    \cup {Reply("GET", target, "OtherError", st, NoBody) : st \in statuses}

\* the body of the reply of an upload: whether the transfer is the one held in
\* _post_reply
UploadBody(current) == [kind |-> "upload", valid |-> TRUE, current |-> current]

\* the replies to an upload: the HTTP statuses of statuses
UploadReplies(statuses) ==
    {Reply("POST", "upload", IF st \in 200..299 THEN "NoError" ELSE "OtherError", st,
           UploadBody(c)) : st \in statuses, c \in BOOLEAN}

\* the replies to the job commands: the command is accepted
CommandBody == [kind |-> "command", valid |-> TRUE]

CommandReplies ==
    {Reply("POST", "send", "NoError", 204, CommandBody),
     Reply("GET", "continueJob", "NoError", 200, CommandBody),
     Reply("GET", "stopJob", "NoError", 200, CommandBody)}

(***************************************************************************)
(* Spec: the connection lifecycle and the poller; the status requests are   *)
(* answered in time or time out.                                            *)
(***************************************************************************)
PollReplies ==
    GetReplies("stateList", {"TimeoutError"}, {GoodState(1)}, {409})
    \cup GetReplies("listPrinter", {"TimeoutError"}, {IdleList}, {})

Next ==
    \/ connect
    \/ disconnect
    \/ update
    \/ \E r \in PollReplies : onRequestFinished(r)

Spec == Init /\ [][Next]_vars


(***************************************************************************)
(* Claims about the connection state tracker (under Spec).                  *)
(***************************************************************************)
Handled == last.op = "onRequestFinished"

IsPoll(req) == req.target \in {"stateList", "listPrinter"}

\* C3: a reply with a timeout error makes the connection state error; the next
\* reply with no error makes the handler set the connection state (line 474) to
\* the state held immediately before that timeout and clear the remembered
\* state. From a timeout until that reply, connection_state_before_timeout
\* holds the state held immediately before the latest timeout.
C3_TimeoutThenRecovery ==
    [][last'.op = "onRequestFinished" =>
         /\ last'.reply.error = "TimeoutError" => connection_state' = "error"
         /\ (last'.reply.error = "NoError" /\ connection_state_before_timeout # None) =>
                /\ last'.restored = connection_state_before_timeout
                /\ connection_state_before_timeout' = None]_vars

\* C4: while the device is connected (not disconnected since connect(), so that
\* every run of timeouts began in connecting or connected), the connection
\* state is not error after a reply with no error has been handled, however
\* many timeouts came before it.
C4_CleanReplyLeavesError ==
    (Handled /\ last.reply.error = "NoError" /\ update_timer) => connection_state # "error"

\* C5: disconnect() makes the state closed and stops the poll timer; while the
\* timer is stopped, every step but connect() leaves it stopped and issues no
\* state or job-list request.
C5_DisconnectStopsPolling ==
    [][/\ last'.op = "disconnect" => (connection_state' = "closed" /\ ~update_timer')
       /\ (~update_timer /\ last'.op # "connect") =>
              /\ ~update_timer'
              /\ \A i \in 1..Len(last'.requests) : ~IsPoll(last'.requests[i])]_vars

\* C5 witness: disconnect() was called while poll requests were outstanding,
\* after the timer had polled at least once more than connect() does
C5_Witness ==
    /\ last.op = "disconnect"
    /\ connection_state = "closed"
    /\ ~update_timer
    /\ inflight["stateList"] > 0
    /\ inflight["listPrinter"] > 1

\* C6: while the state is closed, every step but connect() leaves it closed.
C6_ClosedUntilConnect ==
    [][(connection_state = "closed" /\ last'.op # "connect") =>
           connection_state' = "closed"]_vars


(***************************************************************************)
(* SpecRecon: the reconciler on answered status requests (HTTP 200), with   *)
(* well-formed and malformed bodies.                                        *)
(***************************************************************************)
\* a configuration whose legacy webcam URL is "/s"
CameraConfig == ConfigBody(TRUE, <<>>, <<<<"/", "s">>>>, <<>>)

ReconReplies ==
    GetReplies("stateList", {},
               {MalformedState} \cup {GoodState(n) : n \in 1..MaxExtruders}, {})
    \cup GetReplies("listPrinter", {}, {MalformedList, IdleList, PrintingList}, {})
    \cup GetReplies("getPrinterConfig", {}, {MalformedConfig, CameraConfig}, {})

NextRecon ==
    \/ connect
    \/ update
    \/ \E r \in ReconReplies : onRequestFinished(r)

SpecRecon == Init /\ [][NextRecon]_vars

\* C7: handling a 200 reply of a status request whose body is not JSON raises no
\* exception out of the handler.
C7_MalformedJsonRaisesNothing ==
    (Handled /\ last.reply.status = 200 /\ ~last.reply.body.valid) => last.raised = ""

\* C8: a state snapshot that reports an extruder count rebuilds the printer
\* list exactly when the count differs from the last known one, once, and the
\* rebuilt printer has the resolved camera.
C8_RebuildExactlyOnChange ==
    [][(/\ last'.op = "onRequestFinished"
        /\ last'.reply.target = "stateList"
        /\ last'.reply.status = 200
        /\ last'.reply.body.valid /\ last'.reply.body.hasId
        /\ last'.reply.body.numExtruder # <<>>) =>
           /\ last'.created = (IF last'.reply.body.numExtruder[1] # number_of_extruders
                               THEN 1 ELSE 0)
           /\ (last'.created = 1 /\ camera_url # <<>>) =>
                  printers'[1].camera = <<camera_url>>]_vars


(***************************************************************************)
(* SpecPrint: starting a print against an idle, an unknown and an offline   *)
(* printer, with the auto-print preference on and off.                      *)
(***************************************************************************)
PrintReplies ==
    GetReplies("stateList", {}, {GoodState(1)}, {401})
    \cup GetReplies("listPrinter", {}, {IdleList, PrintingList}, {})

NextPrint ==
    \/ connect
    \/ \E r \in PrintReplies : onRequestFinished(r)
    \/ setAutoPrint
    \/ startPrint
    \/ queuePrint

SpecPrint == Init /\ [][NextPrint]_vars

ErrorShown == error_message # <<>> /\ error_message[1].visible

\* C1 as stated: startPrint() with the printer offline issues no upload request
\* and shows an error message, whatever the auto-print preference.
C1_OfflineNeverUploads ==
    [][(/\ last'.op = "startPrint"
        /\ printers # <<>>
        /\ printers[1].state = "offline") =>
           (last'.requests = <<>> /\ ErrorShown')]_vars

\* C1 amended: startPrint() with the printer offline and the auto-print
\* preference enabled issues no upload request and shows an error message.
C1_OfflineAutoPrintNeverUploads ==
    [][(/\ last'.op = "startPrint"
        /\ printers # <<>>
        /\ printers[1].state = "offline"
        /\ pref_auto_print) =>
           (last'.requests = <<>> /\ ErrorShown')]_vars

\* C1 witness: startPrint() was called with auto-print on an offline printer and
\* ended with the offline message
C1_Witness ==
    /\ last.op = "startPrint"
    /\ printers # <<>>
    /\ printers[1].state = "offline"
    /\ auto_print
    /\ ErrorShown
    /\ error_message[1].text = "offline"
    /\ inflight["upload"] = 0

(***************************************************************************)
(* SpecQueue: the pending command queue and its zero-delay flush timer.     *)
(***************************************************************************)
NextQueue ==
    \/ connect
    \/ disconnect
    \/ \E c \in Commands : sendCommand(c)
    \/ sendQueuedGcode

SpecQueue == Init /\ [][NextQueue]_vars

\* C2: the flush of a queue of N >= 1 commands issues exactly one request, the
\* POST of the send action with those commands in call order, and empties the
\* queue.
C2_FlushIsOneRequest ==
    [][(last'.op = "sendQueuedGcode" /\ queued_gcode_commands # <<>>) =>
           /\ last'.requests = <<Request("POST", "send", "api", queued_gcode_commands)>>
           /\ queued_gcode_commands' = <<>>]_vars

(***************************************************************************)
(* SpecCamera: the configuration reply, for every instance endpoint and raw *)
(* stream URL of the sets below, in both response shapes.                   *)
(***************************************************************************)
Url_stream_loopback == S_loopback \o <<"/", "s", "t", "r", "e", "a", "m">>
Url_stream == <<"/", "s", "t", "r", "e", "a", "m">>
Url_cam_local == <<"h", "t", "t", "p", ":", "/", "/", "c", "a", "m", ".", "l", "o", "c", "a", "l", "/", "m", "j", "p", "e", "g">>

RawUrls ==
    {<<>>, Url_stream_loopback, Url_stream, Url_cam_local,
     <<"H", "t", "t", "p", ":", "/", "/", "c">>,
     <<"h", "t", "t">>,
     <<"/", "/", "c">>,
     <<":", "8", "/", "s">>,
     <<"c", "/", "s">>,
     S_http \o <<":", "/", "/">> \o S_loopback,
     <<"/", "/">> \o S_loopback,
     <<"/">> \o S_loopback \o <<"/">> \o S_loopback}

CameraBodies ==
    {ConfigBody(TRUE, <<>>, <<u>>, <<>>) : u \in RawUrls}
    \cup {ConfigBody(TRUE, <<>>, <<>>, <<<<<<u>>>>>>) : u \in RawUrls}
    \cup {ConfigBody(TRUE, <<>>, <<Url_cam_local>>, <<<<<<u>>>>>>) : u \in {<<>>, Url_stream}}
    \cup {ConfigBody(TRUE, <<>>, <<Url_stream>>, <<<<>>>>),
          ConfigBody(TRUE, <<>>, <<Url_stream>>, <<<<<<>>>>>>)}

CameraReplies ==
    GetReplies("getPrinterConfig", {}, CameraBodies, {})
    \cup GetReplies("stateList", {}, {GoodState(1)}, {})

\* the instance endpoints of the model: protocol, address, port
Endpoints == {<<S_http, S_addr1, 8080>>, <<S_https, S_addr1, 8080>>,
              <<S_http, S_addr2, 80>>}

InitCamera ==
    /\ InitDevice
    /\ \E e \in Endpoints : protocol = e[1] /\ address = e[2] /\ port = e[3]
    /\ pref_auto_print = TRUE
    /\ pref_flip_y = FALSE

NextCamera ==
    \/ connect
    \/ \E r \in CameraReplies : onRequestFinished(r)

SpecCamera == InitCamera /\ [][NextCamera]_vars

\* whether the multi-webcam list of a configuration body gives a raw URL
HasMulti(b) == b.webcams # <<>> /\ b.webcams[1] # <<>> /\ b.webcams[1][1] # <<>>

\* a configuration reply that carries a raw stream URL was just handled
CameraHandled ==
    /\ Handled
    /\ last.reply.target = "getPrinterConfig"
    /\ last.reply.status = 200
    /\ last.reply.body.valid
    /\ (last.reply.body.webcam # <<>> \/ HasMulti(last.reply.body))

\* the raw URL that decides: the multi-webcam one when both shapes are present
RawUrl == IF HasMulti(last.reply.body) THEN last.reply.body.webcams[1][1][1]
          ELSE last.reply.body.webcam[1]

\* the rules of C9 on u, the raw URL after the replacement of the loopback
\* address; http decides whether u starts with "http"
C9_Rules(u, http) ==
    IF u = <<>> THEN [url |-> <<>>, shares |-> FALSE]
    ELSE IF http THEN [url |-> u, shares |-> FALSE]
    ELSE IF Len(u) >= 2 /\ u[1] = "/" /\ u[2] = "/"
         THEN [url |-> protocol \o <<":">> \o u, shares |-> FALSE]
    ELSE IF u[1] = ":"
         THEN [url |-> protocol \o <<":", "/", "/">> \o address \o u, shares |-> FALSE]
    ELSE IF u[1] = "/"
         THEN [url |-> protocol \o <<":", "/", "/">> \o address \o <<":">>
                       \o FormatInt(port) \o u,
               shares |-> TRUE]
    ELSE [url |-> <<>>, shares |-> FALSE]

Replaced == Replace(RawUrl, S_loopback, address)

Resolved == [url |-> camera_url, shares |-> camera_shares_proxy]

\* C9 as stated: the camera URL and the shares-proxy flag are given by the
\* rules, "starts with http" comparing the characters as they are, in both
\* response shapes.
C9_ResolutionRules ==
    CameraHandled =>
        Resolved = C9_Rules(Replaced, Len(Replaced) >= 4 /\ SubSeq(Replaced, 1, 4) = S_http)

\* C9 amended: the same, "starts with http" comparing the first four characters
\* in any letter case.
C9_ResolutionRulesAnyCase ==
    CameraHandled =>
        Resolved = C9_Rules(Replaced,
                            Len(Replaced) >= 4
                            /\ \A i \in 1..4 : Replaced[i] \in {S_http[i], <<"H", "T", "T", "P">>[i]})

\* C9 witness: every rule has decided a reply; here the "/" rule in the
\* multi-webcam shape, with the loopback address replaced inside the URL
C9_Witness ==
    /\ CameraHandled
    /\ HasMulti(last.reply.body)
    /\ RawUrl # Replaced
    /\ camera_shares_proxy
    /\ camera_url # <<>>

TheExample == protocol = S_http /\ address = S_addr1 /\ port = 8080

\* C10 as stated: with address 10.0.0.5, protocol http and port 8080, the raw URL
\* 127.0.0.1/stream resolves to http://10.0.0.5:8080/stream with shares-proxy
\* true, "" resolves to "", http://cam.local/mjpeg to itself.
C10_Examples ==
    (CameraHandled /\ TheExample) =>
        /\ RawUrl = Url_stream_loopback =>
               Resolved = [url |-> <<"h", "t", "t", "p", ":", "/", "/", "1", "0", ".", "0", ".", "0", ".", "5", ":", "8", "0", "8", "0", "/", "s", "t", "r", "e", "a", "m">>,
                           shares |-> TRUE]
        /\ RawUrl = <<>> => camera_url = <<>>
        /\ RawUrl = Url_cam_local => camera_url = Url_cam_local

\* C10 amended: with the same endpoint, the raw URL /stream resolves to
\* http://10.0.0.5:8080/stream with shares-proxy true; 127.0.0.1/stream becomes
\* 10.0.0.5/stream, which no rule accepts, and resolves to "" with shares-proxy
\* false; "" resolves to "", http://cam.local/mjpeg to itself.
C10_ExamplesAmended ==
    (CameraHandled /\ TheExample) =>
        /\ RawUrl = Url_stream =>
               Resolved = [url |-> <<"h", "t", "t", "p", ":", "/", "/", "1", "0", ".", "0", ".", "0", ".", "5", ":", "8", "0", "8", "0", "/", "s", "t", "r", "e", "a", "m">>,
                           shares |-> TRUE]
        /\ RawUrl = Url_stream_loopback => Resolved = [url |-> <<>>, shares |-> FALSE]
        /\ RawUrl = <<>> => Resolved = [url |-> <<>>, shares |-> FALSE]
        /\ RawUrl = Url_cam_local => Resolved = [url |-> Url_cam_local, shares |-> FALSE]

\* C10 witness: the example endpoint has resolved /stream in the legacy shape
C10_Witness ==
    /\ CameraHandled
    /\ TheExample
    /\ ~HasMulti(last.reply.body)
    /\ RawUrl = Url_stream
    /\ camera_shares_proxy

(***************************************************************************)
(* Further claims about the poller and the lifecycle (under Spec).          *)
(***************************************************************************)
Count(t) == CountTarget(last.requests, t)

\* C17: connect() issues exactly one device-state, one job-list and one
\* server-configuration request; a poll tick issues exactly one device-state
\* and one job-list request and no server-configuration request.
C17_RequestsPerConnectAndTick ==
    /\ last.op = "connect" =>
           (Count("stateList") = 1 /\ Count("listPrinter") = 1
            /\ Count("getPrinterConfig") = 1)
    /\ last.op = "update" =>
           (Count("stateList") = 1 /\ Count("listPrinter") = 1
            /\ Count("getPrinterConfig") = 0)

\* C20: after disconnect() followed by connect(), the printer list is empty
\* until a reply of the new connection is handled: every connect() leaves no
\* printer, extruder or job of an earlier connection.
C20_ReconnectStartsEmpty ==
    [][(last'.op = "connect" /\ ~update_timer /\ last.op = "disconnect") =>
           printers' = <<>>]_vars

(***************************************************************************)
(* SpecJob: the job list, with elements that report no job together with    *)
(* other fields.                                                            *)
(***************************************************************************)
\* no job, and a pause flag still set
NonePausedList == ListBody(TRUE, <<Elem(<<"none">>, <<TRUE>>, <<>>, <<>>, <<>>, <<>>)>>)
\* no job, and the times of the job that ended
NoneTimedList ==
    ListBody(TRUE, <<Elem(<<"none">>, <<FALSE>>, <<100>>, <<1>>, <<200>>, <<190>>)>>)
\* no job, and a start of 0
NoneUnstartedList ==
    ListBody(TRUE, <<Elem(<<"none">>, <<FALSE>>, <<0>>, <<0>>, <<0>>, <<0>>)>>)
\* a running job that is paused
PausedList ==
    ListBody(TRUE, <<Elem(<<"benchy">>, <<TRUE>>, <<50>>, <<1>>, <<200>>, <<100>>)>>)

\* a running job whose element carries no start
UnstartedJobList ==
    ListBody(TRUE, <<Elem(<<"benchy">>, <<FALSE>>, <<50>>, <<>>, <<>>, <<>>)>>)

JobReplies ==
    GetReplies("listPrinter", {},
               {IdleList, PrintingList, PausedList, NonePausedList, NoneTimedList,
                NoneUnstartedList, UnstartedJobList}, {500})
    \cup GetReplies("stateList", {}, {GoodState(1)}, {})

NextJob ==
    \/ connect
    \/ update
    \/ \E r \in JobReplies : onRequestFinished(r)

SpecJob == Init /\ [][NextJob]_vars

\* a job-list reply with status 200 whose first element has job "none"
ReportsNoJob(r) ==
    /\ r.target = "listPrinter"
    /\ r.status = 200
    /\ r.body.valid
    /\ r.body.items # <<>>
    /\ r.body.items[1].job = <<"none">>

\* C11: after a job-list reply with status 200 whose first element has job
\* "none" is handled while the printer has an active job, the active job has
\* elapsed time 0, total time 0 and state ready and the printer state is idle,
\* whatever the other fields of the element.
C11_NoneReplacesJob ==
    [][(/\ last'.op = "onRequestFinished"
        /\ ReportsNoJob(last'.reply)
        /\ printers # <<>>
        /\ printers[1].job # <<>>) =>
           /\ printers'[1].state = "idle"
           /\ printers'[1].job # <<>>
           /\ printers'[1].job[1].state = "ready"
           /\ printers'[1].job[1].time_elapsed = 0
           /\ printers'[1].job[1].time_total = 0]_vars

(***************************************************************************)
(* Further claims about the print start (under SpecPrint).                  *)
(***************************************************************************)
\* C13: every upload request goes to the job URL exactly when auto-print is
\* enabled and the forced-queue flag is not set, and to the model/save URL
\* otherwise; the upload of the Queue action goes to the model/save URL;
\* startPrint() resets the forced-queue flag and its upload is routed by the
\* auto-print preference alone; every other request goes to the API URL.
C13_UploadRouting ==
    [][\A i \in 1..Len(last'.requests) :
          LET q == last'.requests[i]
          IN IF q.target = "upload"
             THEN /\ q.url = (IF auto_print' /\ ~forced_queue' THEN "job" ELSE "save")
                  /\ last'.op = "queuePrint" => q.url = "save"
                  /\ last'.op = "startPrint" =>
                         /\ ~forced_queue'
                         /\ q.url = (IF pref_auto_print THEN "job" ELSE "save")
             ELSE q.url = "api"]_vars

\* C13 witness: the Queue action was accepted with auto-print enabled and its
\* upload went to the model/save URL
C13_Witness ==
    /\ last.op = "queuePrint"
    /\ auto_print
    /\ forced_queue
    /\ Len(last.requests) = 1
    /\ last.requests[1].target = "upload"
    /\ last.requests[1].url = "save"

\* C18: startPrint() with auto-print enabled, when the latest job-list reply
\* reported a running job (the active job is printing or paused), issues no
\* upload request and shows an error message that offers the Queue action.
C18_BusyOffersQueue ==
    [][(/\ last'.op = "startPrint"
        /\ printers # <<>>
        /\ printers[1].job # <<>>
        /\ printers[1].job[1].state \in {"printing", "paused"}
        /\ pref_auto_print) =>
           /\ last'.requests = <<>>
           /\ ErrorShown'
           /\ error_message'[1].action = "Queue"]_vars

(***************************************************************************)
(* SpecUpload: uploads that are answered, fail or are cancelled.            *)
(***************************************************************************)
UploadSpecReplies ==
    GetReplies("listPrinter", {}, {IdleList}, {})
    \cup GetReplies("stateList", {}, {}, {401})
    \cup UploadReplies({201, 500})

NextUpload ==
    \/ connect
    \/ \E r \in UploadSpecReplies : onRequestFinished(r)
    \/ setAutoPrint
    \/ startPrint
    \/ queuePrint
    \/ cancelSendGcode

SpecUpload == Init /\ [][NextUpload]_vars

ProgressHidden == progress_message = <<>> \/ ~progress_message[1].visible

\* C12: _cancelSendGcode raises nothing, issues no request and hides the
\* progress message in every transfer state; it leaves no reply in
\* _post_reply, and with no reply there it aborts nothing.
C12_CancelIsSafe ==
    [][last'.op = "cancelSendGcode" =>
           /\ last'.raised = ""
           /\ last'.requests = <<>>
           /\ ProgressHidden'
           /\ post_reply' = <<>>
           /\ post_reply = <<>> => last'.aborted = 0
           /\ PostReplyInFlight => inflight'["upload"] = inflight["upload"] - 1
           /\ ~PostReplyInFlight => inflight' = inflight]_vars

\* C12 witness: an upload in flight was cancelled while its progress message
\* was shown
C12_Witness ==
    /\ last.op = "cancelSendGcode"
    /\ last.aborted = 1
    /\ last.reply.error = "OperationCanceledError"
    /\ progress_message # <<>>
    /\ ~progress_message[1].visible
    /\ post_reply = <<>>

UploadHandled == Handled /\ last.reply.target = "upload" /\ last.reply.status # 0

\* C14: after the reply of an upload with a status outside 200..299 is
\* handled, the progress message is hidden and an upload-failure message is
\* shown.
C14_FailedUploadHidesProgress ==
    (UploadHandled /\ last.reply.status \notin 200..299) =>
        /\ ProgressHidden
        /\ ErrorShown
        /\ error_message[1].text = "unableToSend"

\* C15: after the successful reply of an upload that went to the model/save
\* URL is handled, the progress message is hidden and the confirmation message
\* that offers to open the web interface is shown.
C15_SavedUploadConfirmed ==
    (/\ UploadHandled
     /\ last.reply.status \in 200..299
     /\ last.reply.body.current
     /\ post_reply[1].url = "save") =>
        /\ ProgressHidden
        /\ last.confirmation

(***************************************************************************)
(* SpecCommand: the job commands and the pending command queue.             *)
(***************************************************************************)
CommandSpecReplies ==
    GetReplies("listPrinter", {}, {PrintingList, PausedList}, {})
    \cup CommandReplies

NextCommand ==
    \/ connect
    \/ \E r \in CommandSpecReplies : onRequestFinished(r)
    \/ pausePrint
    \/ resumePrint
    \/ cancelPrint
    \/ sendCommand("G28")
    \/ sendQueuedGcode

SpecCommand == Init /\ [][NextCommand]_vars

\* the command requests issued and not yet answered
CommandsInFlight == inflight["send"] + inflight["continueJob"] + inflight["stopJob"]

\* C16: at most one command request of the device is in flight.
C16_OneCommandInFlight == CommandsInFlight <= 1

HasActiveJob == printers # <<>> /\ printers[1].job # <<>>

JobPaused == HasActiveJob /\ printers[1].job[1].state = "paused"

PauseCommand == Request("POST", "send", "api", <<"@pause">>)

\* what C19 says of a step: the request of each of the three operations, and
\* the pending command queue and its timer left alone
C19_Step ==
    /\ last'.op = "pausePrint" => last'.requests = <<PauseCommand>>
    /\ last'.op = "resumePrint" =>
           last'.requests = (IF JobPaused THEN <<Request("GET", "continueJob", "api", <<>>)>>
                             ELSE <<PauseCommand>>)
    /\ last'.op = "cancelPrint" =>
           last'.requests = <<Request("GET", "stopJob", "api", <<>>)>>
    /\ last'.op \in {"pausePrint", "resumePrint", "cancelPrint"} =>
           /\ last'.raised = ""
           /\ queued_gcode_commands' = queued_gcode_commands
           /\ queued_gcode_timer' = queued_gcode_timer

TransportErrors == {"TimeoutError", "ConnectionRefusedError", "UnknownNetworkError"}

TransportReplies ==
    GetReplies("stateList", TransportErrors, {GoodState(1)}, {})
    \cup GetReplies("listPrinter", TransportErrors, {PrintingList}, {})

NextTransport ==
    \/ connect
    \/ update
    \/ \E r \in TransportReplies : onRequestFinished(r)

SpecTransport == Init /\ [][NextTransport]_vars

\* C21: handling a reply with a transport error and no HTTP status makes the
\* connection state error and changes nothing of the printer, job and
\* extruder model.
C21_TransportFailure ==
    [][(/\ last'.op = "onRequestFinished"
        /\ last'.reply.error # "NoError"
        /\ last'.reply.status = 0) =>
           /\ connection_state' = "error"
           /\ printers' = printers
           /\ number_of_extruders' = number_of_extruders]_vars

(***************************************************************************)
(* Further claims about the reconciler (under SpecRecon).                   *)
(***************************************************************************)
\* the fields the reconciler works on, as they are now
Fields ==
    [cs |-> connection_state, printers |-> printers, n |-> number_of_extruders,
     nset |-> number_of_extruders_set, acc |-> accepts_commands,
     text |-> connection_text, url |-> camera_url, shares |-> camera_shares_proxy,
     rotation |-> camera_rotation, mirror |-> camera_mirror, sd |-> sd_supported]

\* the fields after the handler has dispatched the reply r on the fields d
After(d, r) == Dispatch(d, r, protocol, address, port, pref_flip_y).d

\* the well-formed 200 replies of a status request
WellFormed(target) == {r \in ReconReplies : r.target = target /\ r.body.valid}

\* C22: when a device-state reply and a job-list reply are outstanding
\* together, the printer model and the connection state after both are handled
\* are the same in either arrival order.
C22_ArrivalOrder ==
    (inflight["stateList"] > 0 /\ inflight["listPrinter"] > 0) =>
        \A a \in WellFormed("stateList"), b \in WellFormed("listPrinter") :
            /\ After(After(Fields, a), b).printers = After(After(Fields, b), a).printers
            /\ After(After(Fields, a), b).cs = After(After(Fields, b), a).cs

\* C29: once the printer has an active job, it has one in every later state of
\* the connection: no step but connect() leaves the printer without one.
C29_ActiveJobKept ==
    [][(/\ printers # <<>>
        /\ printers[1].job # <<>>
        /\ last'.op # "connect") =>
           (printers' # <<>> /\ printers'[1].job # <<>>)]_vars

(***************************************************************************)
(* Further claims about the connection state (under Spec).                  *)
(***************************************************************************)
\* C23: handling a device-state reply with status 409 makes a connecting
\* device connected and leaves every other connection state as it is; the
\* printer state and the state of the active job, when there is one, become
\* offline.
C23_NotOperational ==
    [][(/\ last'.op = "onRequestFinished"
        /\ last'.reply.target = "stateList"
        /\ last'.reply.status = 409) =>
           /\ connection_state' = (IF connection_state = "connecting" THEN "connected"
                                   ELSE connection_state)
           /\ printers' # <<>>
           /\ printers'[1].state = "offline"
           /\ IF printers # <<>> /\ printers[1].job # <<>>
              THEN printers'[1].job # <<>> /\ printers'[1].job[1].state = "offline"
              ELSE printers'[1].job = <<>>]_vars

\* C23 witness: a 409 reply promoted a connecting device whose printer had an
\* active job
C23_Witness ==
    /\ Handled
    /\ last.reply.target = "stateList"
    /\ last.reply.status = 409
    /\ connection_state = "connected"
    /\ accepts_commands = FALSE
    /\ printers[1].state = "offline"
    /\ printers[1].job # <<>>
    /\ printers[1].job[1].state = "offline"

(***************************************************************************)
(* SpecBed: device-state snapshots with and without bed data, and snapshots *)
(* whose record is incomplete.                                              *)
(***************************************************************************)
Hotends(n) == <<[i \in 1..n |-> Temp(205, 210)]>>

\* no bed data, with the extruder count
NoBedState == StateBody(TRUE, TRUE, <<1>>, Hotends(1), <<>>, <<>>)
\* no bed data and no extruder count
NoBedNoCountState == StateBody(TRUE, TRUE, <<>>, <<>>, <<>>, <<>>)
\* a heatedBeds list
BedsState == StateBody(TRUE, TRUE, <<1>>, Hotends(1), <<>>, <<<<Temp(45, 50)>>>>)
\* a heatedBed object whose temperature read is null
NullBedState == StateBody(TRUE, TRUE, <<1>>, Hotends(1), <<Temp(JsonNull, 60)>>, <<>>)
\* JSON without the record of the instance
NoIdState == StateBody(TRUE, FALSE, <<>>, <<>>, <<>>, <<>>)
\* two extruders reported, the temperatures of one
ShortExtruderState == StateBody(TRUE, TRUE, <<2>>, Hotends(1), <<Temp(55, 60)>>, <<>>)
\* a heatedBed object without tempRead
MissingTempState ==
    StateBody(TRUE, TRUE, <<1>>, Hotends(1), <<[tempRead |-> <<>>, tempSet |-> <<60>>]>>, <<>>)

BedReplies ==
    GetReplies("stateList", {},
               {GoodState(1), NoBedState, NoBedNoCountState, BedsState, NullBedState,
                NoIdState, ShortExtruderState, MissingTempState}, {})
    \cup GetReplies("listPrinter", {}, {IdleList}, {})

NextBed ==
    \/ connect
    \/ update
    \/ \E r \in BedReplies : onRequestFinished(r)

SpecBed == Init /\ [][NextBed]_vars

StateHandled == Handled /\ last.reply.target = "stateList" /\ last.reply.status = 200

\* extraction from the body fails before the bed data or in it
ExtractionFails(b) ==
    /\ b.valid
    /\ \/ ~b.hasId
       \/ /\ b.numExtruder # <<>>
          /\ b.extruder # <<>>
          /\ Len(b.extruder[1]) < b.numExtruder[1]
       \/ /\ b.heatedBed # <<>>
          /\ (b.heatedBed[1].tempRead = <<>> \/ b.heatedBed[1].tempSet = <<>>)

TheBed == [actual |-> printers[1].bed_actual, target |-> printers[1].bed_target]

FromRecord(t) == [actual |-> OrMinusOne(t.tempRead[1]), target |-> OrMinusOne(t.tempSet[1])]

\* C24: after a device-state 200 reply, the bed temperatures come from the
\* heatedBed object when the record has one, else from the first element of
\* its heatedBeds list, else they are -1 and 0 and the active job is offline,
\* with and without numExtruder in the record.
C24_BedFallback ==
    (StateHandled /\ last.reply.body.valid /\ ~ExtractionFails(last.reply.body)) =>
        LET b == last.reply.body
        IN IF b.heatedBed # <<>> THEN TheBed = FromRecord(b.heatedBed[1])
           ELSE IF b.heatedBeds # <<>> THEN TheBed = FromRecord(b.heatedBeds[1][1])
           ELSE /\ TheBed = [actual |-> -1, target |-> 0]
                /\ printers[1].job # <<>> => printers[1].job[1].state = "offline"

\* C25: when extraction from a device-state 200 body fails, the handler raises
\* nothing, sets the connectivity message and makes the active job, when
\* there is one, offline.
C25_ExtractionFailure ==
    (StateHandled /\ ExtractionFails(last.reply.body)) =>
        /\ last.raised = ""
        /\ connection_text = "invalid"
        /\ printers[1].job # <<>> => printers[1].job[1].state = "offline"

(***************************************************************************)
(* Further claims about the job list (under SpecJob).                       *)
(***************************************************************************)
ListHandled == Handled /\ last.reply.target = "listPrinter" /\ last.reply.status # 0

\* C26: after a job-list 200 reply whose first element has no start value
\* (key absent, or zero), the elapsed and the total time of the active job are 0.
C26_NoStartResetsTimes ==
    (/\ ListHandled
     /\ last.reply.status = 200
     /\ last.reply.body.valid
     /\ last.reply.body.items # <<>>
     /\ last.reply.body.items[1].start \in {<<>>, <<0>>}) =>
        /\ printers[1].job # <<>>
        /\ printers[1].job[1].time_elapsed = 0
        /\ printers[1].job[1].time_total = 0

\* C27: handling a job-list reply with a status other than 200 raises nothing,
\* sets the bad-response message and makes the active job, when there is one,
\* offline.
C27_BadResponse ==
    (ListHandled /\ last.reply.status # 200) =>
        /\ last.raised = ""
        /\ connection_text = "badResponse"
        /\ printers[1].job # <<>> => printers[1].job[1].state = "offline"

(***************************************************************************)
(* SpecFlip: configuration replies while the vertical-flip preference is    *)
(* switched on and off.                                                     *)
(***************************************************************************)
FlipReplies ==
    GetReplies("getPrinterConfig", {},
               {CameraConfig, ConfigBody(TRUE, <<>>, <<>>, <<<<<<Url_stream>>>>>>),
                ConfigBody(TRUE, <<TRUE>>, <<>>, <<>>)}, {})
    \cup GetReplies("stateList", {}, {GoodState(1)}, {})

NextFlip ==
    \/ connect
    \/ disconnect
    \/ setFlipY
    \/ \E r \in FlipReplies : onRequestFinished(r)

SpecFlip == Init /\ [][NextFlip]_vars

\* C28: after a configuration reply that carries a webcam URL, the camera
\* rotation is 180 when the vertical-flip preference is set and 0 when it is
\* not, and the mirror flag is false.
C28_RotationFollowsFlip ==
    CameraHandled =>
        /\ camera_rotation = (IF pref_flip_y THEN 180 ELSE 0)
        /\ ~camera_mirror

(***************************************************************************)
(* Further claims about the upload (under SpecUpload).                      *)
(***************************************************************************)
\* C30: at most one upload is in flight, and it is the one held in
\* _post_reply.
C30_OneUploadInFlight ==
    /\ inflight["upload"] <= 1
    /\ inflight["upload"] = 1 => PostReplyInFlight

(***************************************************************************)
(* SpecProgress: progress signals of uploads in flight, between calls of    *)
(* startPrint() and status replies.                                         *)
(***************************************************************************)
ProgressSpecReplies ==
    GetReplies("listPrinter", {}, {IdleList}, {})
    \cup GetReplies("stateList", {}, {}, {401})
    \cup UploadReplies({201})

NextProgress ==
    \/ connect
    \/ \E r \in ProgressSpecReplies : onRequestFinished(r)
    \/ startPrint
    \/ onUploadProgress

SpecProgress == Init /\ [][NextProgress]_vars

\* C31: whenever the progress callback of an upload in flight runs, a progress
\* message exists and the callback raises nothing.
C31_ProgressMessageExists ==
    last.op = "onUploadProgress" =>
        /\ last.raised = ""
        /\ progress_message # <<>>

(***************************************************************************)
(* Further claims about the job commands (under SpecCommand).               *)
(***************************************************************************)
\* C32: pausePrint() and resumePrint() without an active job issue no request
\* and raise nothing, also before a reply has created the printer list; they
\* issue a request only when the printer has an active job.
C32_NoJobNoCommand ==
    [][last'.op \in {"pausePrint", "resumePrint"} =>
           /\ ~HasActiveJob => (last'.requests = <<>> /\ last'.raised = "")
           /\ last'.requests # <<>> => HasActiveJob]_vars

====
